---- MODULE Spec2Model ----
(***************************************************************************)
(* OpenAI Chat-Completions handler (backend/src/utils/openai/handler.py)   *)
(* as a state machine: one request is validated, dispatched to the agent   *)
(* runtime, and answered either as an SSE stream or as one JSON body.      *)
(*                                                                         *)
(* RequestConverter, ResponseConverter and classify_error are imported by  *)
(* the handler from modules that are not part of the source tree; their    *)
(* behaviour is taken from the written specification (sections 4.1-4.3).   *)
(*                                                                         *)
(* Two further parts have specifications of their own: the sliding-window  *)
(* reducer of the agent state (backend/src/agents/agent.py, SpecWindow)    *)
(* and the SQL query tool (backend/src/tools/sql_query_tool.py, SpecSql).  *)
(***************************************************************************)
EXTENDS Integers, Sequences, FiniteSets, TLC

\* ------------------------------------------------------------------ bounds
\* The longest runtime event stream explored.
MaxEvents == 3
\* The longest runtime event stream explored when two requests run at once.
MaxConcEvents == 2

\* ------------------------------------------------------- program constants
\* handler.py:118 / handler.py:168
RECURSION_LIMIT == 100

\* ------------------------------------------------------------- input sets
Reqs == {1, 2}

NoValue == "<none>"

\* What the payload's `messages` field looks like: absent, present but
\* mapping to zero runtime messages, or present and usable.
MessagesShapes == {"missing", "empty", "ok"}
SessionIds == {"", "s1"}
AmbientIds == {"", "amb"}
Models == {"m1"}
\* A payload may carry a field named recursion_limit; the handler never reads it.
PayloadLimits == {0, 7}
\* How a converter reports "nothing derivable": by raising or by an empty value.
ConverterModes == {"raise", "empty"}

Payloads ==
    [messages : MessagesShapes, session : SessionIds, stream : BOOLEAN,
     model : Models, recursion_limit : PayloadLimits]

Envs ==
    [ambient : AmbientIds, sidMode : ConverterModes, tsiMode : ConverterModes,
     agentProj : BOOLEAN]

IdlePayload ==
    [messages |-> "ok", session |-> "s1", stream |-> FALSE,
     model |-> "m1", recursion_limit |-> 0]

IdleEnv ==
    [ambient |-> "", sidMode |-> "raise", tsiMode |-> "raise", agentProj |-> FALSE]

\* Failures the collaborators can raise (all subclasses of Exception).
Exceptions ==
    {"InvalidRequest", "BadRequest", "NotFound", "Timeout", "ConfigError", "Unknown"}

\* Runtime events of stream_mode="messages": a text delta or an event without text.
DeltaEvents == {[kind |-> "delta", text |-> "a"], [kind |-> "delta", text |-> "b"]}
ToolEvent == [kind |-> "tool", text |-> ""]
RuntimeEvents == DeltaEvents \cup {ToolEvent}

VARIABLES
    pc,          \* position of each request in handle() / stream_generator()
    payload,     \* the request body
    env,         \* execution environment of the request (ambient id, converter modes)
    session_id,  \* local `session_id` of handle()
    request_id,  \* ResponseConverter.request_id
    failure,     \* the exception that was handled, and where it was raised
    response,    \* what handle() returned
    graphCalls,  \* number of graph_service._get_graph(ctx) calls
    invocations, \* graph.astream(...) calls, with the config they were given
    produced,    \* events the runtime's stream has produced so far
    pulls,       \* number of times the runtime's stream was asked for its next event
    collected,   \* local `collected` of _handle_non_stream
    collectCalls, \* number of collect_langgraph_to_response calls
    pending,     \* frame the generator is suspended on (yielded, not yet written)
    written,     \* frames written to the client
    cancelled,   \* the streaming response was cancelled
    messages,    \* AgentState.messages, the agent's windowed message list
    merged,      \* add_messages(old, new) of the latest state update
    nextId,      \* the id the next new message gets
    edits,       \* number of updates that replaced or removed a message
    sqlPc,       \* position inside execute_sql_query
    sqlText,     \* its `sql` argument
    sqlCalls,    \* number of execute_sql_query calls so far
    dbOpen,      \* database sessions open now
    dbOpened,    \* database sessions opened so far
    executed,    \* statements the database has executed, by leading keyword
    sqlRows,     \* rows fetched by the running call
    toolResult   \* what the latest execute_sql_query call returned

handlerVars ==
    <<pc, payload, env, session_id, request_id, failure, response, graphCalls,
      invocations, produced, pulls, collected, collectCalls, pending, written,
      cancelled>>

windowVars == <<messages, merged, nextId, edits>>

sqlVars == <<sqlPc, sqlText, sqlCalls, dbOpen, dbOpened, executed, sqlRows, toolResult>>

toolVars == <<windowVars, sqlVars>>

vars == <<handlerVars, toolVars>>

\* No agent state update and no tool call has happened.
ToolsIdle ==
    /\ messages = <<>>
    /\ merged = <<>>
    /\ nextId = 1
    /\ edits = 0
    /\ sqlPc = "idle"
    /\ sqlText = <<>>
    /\ sqlCalls = 0
    /\ dbOpen = 0
    /\ dbOpened = 0
    /\ executed = <<>>
    /\ sqlRows = 0
    /\ toolResult = [text |-> NoValue, raised |-> FALSE, from |-> NoValue]

\* ------------------------------------------------------------ ctx / ids
\* context.py:30 -- every Context has its own run_id
RunId(r) == IF r = 1 THEN "run1" ELSE "run2"

RequestIdShared(r) == "chatcmpl-" \o RunId(1)

\* handler.py:64
RequestIdOf(r) == "chatcmpl-" \o RunId(r)

\* ------------------------------------------------------- error classifier
\* classify_error(error, context).category.name
CategoryOf(ex) ==
    CASE ex = "InvalidRequest" -> "Invalid"
      [] ex = "BadRequest" -> "BadRequest"
      [] ex = "NotFound" -> "NotFound"
      [] ex = "Timeout" -> "TimeOut"
      [] ex = "ConfigError" -> "Config"
      [] OTHER -> "System"

\* str(classify_error(error, context).code)
CodeOf(ex) ==
    CASE ex = "InvalidRequest" -> "code-invalid"
      [] ex = "BadRequest" -> "code-badrequest"
      [] ex = "NotFound" -> "code-notfound"
      [] ex = "Timeout" -> "code-timeout"
      [] ex = "ConfigError" -> "code-config"
      [] OTHER -> "code-system"

classify_error(ex) == [category |-> CategoryOf(ex), code |-> CodeOf(ex)]

\* -------------------------------------------------------- _handle_error
StatusOfInvalidAs500(category) ==
    CASE category = "TimeOut" -> 408
      [] category = "NotFound" -> 404
      [] OTHER -> 500

StatusOfTimeoutAs500(category) ==
    CASE category \in {"Invalid", "BadRequest"} -> 400
      [] category = "NotFound" -> 404
      [] OTHER -> 500

\* handler.py:195-207
StatusOf(category) ==
    CASE category \in {"Invalid", "BadRequest"} -> 400
      [] category = "TimeOut" -> 408
      [] category = "NotFound" -> 404
      [] OTHER -> 500

ErrorTypeOfAlwaysInternal(category) == "internal_error"

\* handler.py:194-206
ErrorTypeOf(category) ==
    CASE category \in {"Invalid", "BadRequest"} -> "invalid_request_error"
      [] category = "TimeOut" -> "timeout_error"
      [] category = "NotFound" -> "not_found_error"
      [] OTHER -> "internal_error"

NoResponse ==
    [kind |-> "none", status |-> 0, media |-> NoValue, etype |-> NoValue,
     code |-> NoValue, message |-> NoValue, content |-> NoValue,
     id |-> NoValue, model |-> NoValue]

\* handler.py:216-234
ErrorResponse(message, error_type, code, status_code) ==
    [kind |-> "json_error", status |-> status_code, media |-> "application/json",
     etype |-> error_type, code |-> code, message |-> message,
     content |-> NoValue, id |-> NoValue, model |-> NoValue]

\* handler.py:190-214
HandleError(ex) ==
    LET err == classify_error(ex)
    IN  ErrorResponse(ex, ErrorTypeOf(err.category), err.code, StatusOf(err.category))

\* The exception left handle() and reached the HTTP layer: no response object.
Escaped(ex) == [NoResponse EXCEPT !.kind = "raised", !.message = ex]

HandleCatchesRequestErrors(ex) == ex \in {"InvalidRequest", "BadRequest"}

\* handler.py:95, 186 -- `except Exception as e` catches every failure; a
\* CancelledError derives from BaseException and passes it by.
HandleCatches(ex) == ex # "CancelledError"

\* handler.py:95-97, 186-188 -- the except clause returns _handle_error(e)
HandleOrRaise(ex) == IF HandleCatches(ex) THEN HandleError(ex) ELSE Escaped(ex)

NoFailure == [exc |-> NoValue, site |-> NoValue]

\* ------------------------------------------------------ request converter
\* RequestConverter.parse fails when `messages` is absent
ParseRaises(p) == p.messages = "missing"

\* The identifier RequestConverter.get_session_id derives: the request's own,
\* else the ambient one, else none.
DerivedSessionId(p, e) == IF p.session # "" THEN p.session ELSE e.ambient

GetSessionIdRaises(p, e) == DerivedSessionId(p, e) = "" /\ e.sidMode = "raise"

\* RequestConverter.to_stream_input: the runtime input; zero messages are
\* either rejected by the converter or handed back as an empty list.
ToStreamInputRaises(p, e) == p.messages = "empty" /\ e.tsiMode = "raise"

to_stream_input(p) ==
    [messages |-> IF p.messages = "ok" THEN <<"user">> ELSE <<>>]

\* ----------------------------------------------------- response converter
ChunkKeys == {"id", "object", "created", "model", "choices"}

Frame(kind, id, model, content, finish, etype, code, message, keys) ==
    [kind |-> kind, id |-> id, model |-> model, content |-> content,
     finish_reason |-> finish, etype |-> etype, code |-> code,
     message |-> message, keys |-> keys]

\* One ChatChunk frame carrying a text delta under choices[0].delta.content
DeltaChunk(rid, model, text) ==
    Frame("delta", rid, model, text, NoValue, NoValue, NoValue, NoValue, ChunkKeys)

\* The final chunk, with finish_reason set
FinishChunk(rid, model) ==
    Frame("finish", rid, model, NoValue, "stop", NoValue, NoValue, NoValue, ChunkKeys)

\* handler.py:142 -- "data: [DONE]\n\n"
DoneFrame ==
    Frame("done", NoValue, NoValue, NoValue, NoValue, NoValue, NoValue, NoValue, {})

ErrorChunkCodeLost(code, message, rid) ==
    Frame("error", rid, NoValue, NoValue, NoValue, "internal_error", "internal_error",
          message, {"id", "object", "error"})

ErrorChunkIdFromMessage(code, message, rid) ==
    Frame("error", message, NoValue, NoValue, NoValue, "internal_error", code,
          rid, {"id", "object", "error"})

\* handler.py:236-252
CreateErrorSseChunk(code, message, rid) ==
    Frame("error", rid, NoValue, NoValue, NoValue, "internal_error", code,
          message, {"id", "object", "error"})

\* iter_langgraph_stream_async over a complete event sequence: one delta
\* chunk per event with text, in arrival order; then the final chunk and
\* the terminal marker.
RECURSIVE DeltaChunksOf(_, _, _)
DeltaChunksOf(events, rid, model) ==
    IF events = <<>> THEN <<>>
    ELSE LET e == Head(events)
         IN  (IF e.kind = "delta" THEN <<DeltaChunk(rid, model, e.text)>> ELSE <<>>)
             \o DeltaChunksOf(Tail(events), rid, model)

iter_stream(events, rid, model) ==
    DeltaChunksOf(events, rid, model) \o <<FinishChunk(rid, model), DoneFrame>>

\* collect_langgraph_to_response: every text delta of the sequence, concatenated
RECURSIVE CollectContent(_)
CollectContent(events) ==
    IF events = <<>> THEN ""
    ELSE LET e == Head(events)
         IN  (IF e.kind = "delta" THEN e.text ELSE "") \o CollectContent(Tail(events))

collect(events, rid, model) ==
    [kind |-> "json", status |-> 200, media |-> "application/json",
     etype |-> NoValue, code |-> NoValue, message |-> NoValue,
     content |-> CollectContent(events), id |-> rid, model |-> model]

\* ------------------------------------------------------------------- Init
Init ==
    /\ pc = [r \in Reqs |-> IF r = 1 THEN "received" ELSE "idle"]
    /\ payload \in {f \in [Reqs -> Payloads] : f[2] = IdlePayload}
    /\ env \in {f \in [Reqs -> Envs] : f[2] = IdleEnv}
    /\ session_id = [r \in Reqs |-> NoValue]
    /\ request_id = [r \in Reqs |-> NoValue]
    /\ failure = [r \in Reqs |-> NoFailure]
    /\ response = [r \in Reqs |-> NoResponse]
    /\ graphCalls = [r \in Reqs |-> 0]
    /\ invocations = [r \in Reqs |-> <<>>]
    /\ produced = [r \in Reqs |-> <<>>]
    /\ pulls = [r \in Reqs |-> 0]
    /\ collected = [r \in Reqs |-> <<>>]
    /\ collectCalls = [r \in Reqs |-> 0]
    /\ pending = [r \in Reqs |-> <<>>]
    /\ written = [r \in Reqs |-> <<>>]
    /\ cancelled = [r \in Reqs |-> FALSE]
    /\ ToolsIdle

runtimeVars == <<graphCalls, invocations, produced, pulls, collected, collectCalls>>
streamVars == <<pending, written, cancelled>>
inputVars == <<payload, env>>

\* ----------------------------------------------------------------- handle
SessionMissingNever(sid) == FALSE

\* handler.py:54
SessionMissing(sid) == sid = ""

NoMessagesNever(stream_input) == FALSE

\* handler.py:71
NoMessages(stream_input) == stream_input.messages = <<>>

\* handler.py:49-77, 95-97 -- validation: parse, session id, converter, input
Validate(r) ==
    /\ pc[r] = "received"
    /\ LET p == payload[r]
           e == env[r]
           sid == DerivedSessionId(p, e)
           Fail(site) ==
               /\ failure' = [failure EXCEPT ![r] = [exc |-> "InvalidRequest", site |-> site]]
               /\ response' = [response EXCEPT ![r] = HandleOrRaise("InvalidRequest")]
               /\ pc' = [pc EXCEPT ![r] = "responded"]
               /\ UNCHANGED <<session_id, request_id>>
       IN  IF ParseRaises(p) THEN Fail("parse")
           ELSE IF GetSessionIdRaises(p, e) THEN Fail("get_session_id")
           ELSE IF SessionMissing(sid) THEN
               /\ response' = [response EXCEPT ![r] =
                      ErrorResponse("session_id is required", "invalid_request_error",
                                    "400001", 400)]
               /\ pc' = [pc EXCEPT ![r] = "responded"]
               /\ session_id' = [session_id EXCEPT ![r] = sid]
               /\ UNCHANGED <<failure, request_id>>
           ELSE IF ToStreamInputRaises(p, e) THEN
               /\ failure' = [failure EXCEPT ![r] =
                      [exc |-> "InvalidRequest", site |-> "to_stream_input"]]
               /\ response' = [response EXCEPT ![r] = HandleOrRaise("InvalidRequest")]
               /\ pc' = [pc EXCEPT ![r] = "responded"]
               /\ session_id' = [session_id EXCEPT ![r] = sid]
               /\ request_id' = [request_id EXCEPT ![r] = RequestIdOf(r)]
           ELSE IF NoMessages(to_stream_input(p)) THEN
               /\ response' = [response EXCEPT ![r] =
                      ErrorResponse("No user message found", "invalid_request_error",
                                    "400002", 400)]
               /\ pc' = [pc EXCEPT ![r] = "responded"]
               /\ session_id' = [session_id EXCEPT ![r] = sid]
               /\ request_id' = [request_id EXCEPT ![r] = RequestIdOf(r)]
               /\ UNCHANGED failure
           ELSE
               /\ pc' = [pc EXCEPT ![r] = "dispatch"]
               /\ session_id' = [session_id EXCEPT ![r] = sid]
               /\ request_id' = [request_id EXCEPT ![r] = RequestIdOf(r)]
               /\ UNCHANGED <<failure, response>>
    /\ UNCHANGED <<toolVars, inputVars, runtimeVars, streamVars>>

\* --------------------------------------------------------------- dispatch
\* loop_trace.py:31-72 -- RunnableConfig(callbacks=...): the trace
\* configuration, with neither recursion_limit nor configurable set.
InitConfig(agentProj) ==
    [callbacks |-> IF agentProj THEN "agent" ELSE "graph",
     recursion_limit |-> 0, thread_id |-> NoValue]

TraceConfigByStream(agentProj, stream) == InitConfig(stream)

\* handler.py:113-116 / handler.py:163-166 -- graph_helper.is_agent_proj()
\* picks the initializer; the request's stream flag is not consulted
TraceConfig(agentProj, stream) == InitConfig(agentProj)

RunConfigKeepInit(run_config, sid) == run_config

\* handler.py:118-119 / handler.py:168-169
RunConfig(run_config, sid) ==
    [run_config EXCEPT !.recursion_limit = RECURSION_LIMIT, !.thread_id = sid]

\* handler.py:121-126 / handler.py:171-176
Astream(stream_input, run_config, r) ==
    [input |-> stream_input, stream_mode |-> "messages", config |-> run_config,
     context |-> RunId(r)]

\* handler.py:111-116 / handler.py:161-166 -- resolving the graph or building
\* the trace configuration may raise
DispatchFailures == [exc : Exceptions, site : {"get_graph", "init_config"}]

\* handler.py:111-126 / handler.py:161-176 -- the graph is resolved, the
\* config built and graph.astream called with it
Invoke(r) ==
    invocations' = [invocations EXCEPT ![r] =
        Append(@, Astream(to_stream_input(payload[r]),
                          RunConfig(TraceConfig(env[r].agentProj, payload[r].stream),
                                    session_id[r]),
                          r))]

\* ------------------------------------------------------------ streaming
StreamingResponse ==
    [kind |-> "stream", status |-> 200, media |-> "text/event-stream",
     etype |-> NoValue, code |-> NoValue, message |-> NoValue,
     content |-> NoValue, id |-> NoValue, model |-> NoValue]

\* handler.py:80-86, 99-150 -- the generator is created, not started
HandleStream(r) ==
    /\ pc[r] = "dispatch"
    /\ payload[r].stream
    /\ response' = [response EXCEPT ![r] = StreamingResponse]
    /\ pc' = [pc EXCEPT ![r] = "gen_created"]
    /\ UNCHANGED <<toolVars, inputVars, session_id, request_id, failure, runtimeVars, streamVars>>

IsExceptionAnything(ex) == TRUE

\* handler.py:133, 143 -- what `except Exception` catches: CancelledError and
\* GeneratorExit derive from BaseException and pass it by.
IsException(ex) == ex \notin {"CancelledError", "GeneratorExit"}

ErrorFramesWithoutDone(code, message, rid) == <<CreateErrorSseChunk(code, message, rid)>>

\* handler.py:135-142 -- the frames the except branch yields
ErrorFrames(code, message, rid) == <<CreateErrorSseChunk(code, message, rid), DoneFrame>>

StreamErrorAsHttp(r, ex, site) ==
    /\ failure' = [failure EXCEPT ![r] = [exc |-> ex, site |-> site]]
    /\ response' = [response EXCEPT ![r] = HandleError(ex)]
    /\ pc' = [pc EXCEPT ![r] = "closed"]
    /\ UNCHANGED pending

\* handler.py:133-142
StreamError(r, ex, site) ==
    /\ failure' = [failure EXCEPT ![r] = [exc |-> ex, site |-> site]]
    /\ pending' = [pending EXCEPT ![r] =
           ErrorFrames(classify_error(ex).code, ex, request_id[r])]
    /\ pc' = [pc EXCEPT ![r] = "finishing"]
    /\ UNCHANGED response

\* handler.py:110-126 -- the client starts consuming the body
GenStart(r) ==
    /\ pc[r] = "gen_created"
    /\ graphCalls' = [graphCalls EXCEPT ![r] = @ + 1]
    /\ \/ /\ \E f \in DispatchFailures : StreamError(r, f.exc, f.site)
          /\ UNCHANGED invocations
       \/ /\ Invoke(r)
          /\ pc' = [pc EXCEPT ![r] = "awaiting"]
          /\ UNCHANGED <<failure, response, pending>>
    /\ UNCHANGED <<toolVars, inputVars, session_id, request_id, produced, pulls, collected,
                   collectCalls, written, cancelled>>

PositionAfterEventPrefetch(e) == "awaiting"

\* handler.py:128-131 -- an event that gave a frame leaves the generator
\* suspended on `yield sse_data`; one without a frame leaves it awaiting
PositionAfterEvent(e) == IF e.kind = "delta" THEN "yielding" ELSE "awaiting"

\* handler.py:128-131 -- the generator asks the runtime for the next event
Pull(r) ==
    /\ pc[r] = "awaiting"
    /\ pulls' = [pulls EXCEPT ![r] = @ + 1]
    /\ \/ /\ Len(produced[r]) < MaxEvents
          /\ \E e \in RuntimeEvents :
                /\ produced' = [produced EXCEPT ![r] = Append(@, e)]
                /\ pending' = [pending EXCEPT ![r] =
                       IF e.kind = "delta"
                       THEN <<DeltaChunk(request_id[r], payload[r].model, e.text)>>
                       ELSE @]
                /\ pc' = [pc EXCEPT ![r] = PositionAfterEvent(e)]
          /\ UNCHANGED <<failure, response>>
       \/ /\ pending' = [pending EXCEPT ![r] =
                 <<FinishChunk(request_id[r], payload[r].model), DoneFrame>>]
          /\ pc' = [pc EXCEPT ![r] = "finishing"]
          /\ UNCHANGED <<failure, response, produced>>
       \/ /\ \E ex \in Exceptions : StreamError(r, ex, "astream")
          /\ UNCHANGED produced
    /\ UNCHANGED <<toolVars, inputVars, session_id, request_id, graphCalls, invocations,
                   collected, collectCalls, written, cancelled>>

ClientWriteFirst(frames, frame) == <<frame>> \o frames

\* handler.py:131 -- `yield sse_data`: the frame goes out after those before it
ClientWrite(frames, frame) == Append(frames, frame)

\* handler.py:131, 141, 142 -- the frame the generator is suspended on is
\* written and the generator resumed
Write(r) ==
    /\ pc[r] \in {"yielding", "finishing"}
    /\ pending[r] # <<>>
    /\ written' = [written EXCEPT ![r] = ClientWrite(@, Head(pending[r]))]
    /\ pending' = [pending EXCEPT ![r] = Tail(@)]
    /\ pc' = [pc EXCEPT ![r] =
           IF Tail(pending[r]) # <<>> THEN pc[r]
           ELSE IF pc[r] = "yielding" THEN "awaiting" ELSE "closed"]
    /\ UNCHANGED <<toolVars, inputVars, session_id, request_id, failure, response,
                   runtimeVars, cancelled>>

CancelledPositionResume(pcv) == "awaiting"

\* handler.py:145 -- `raise`: the generator ends with the cancellation
CancelledPosition(pcv) == "cancelled"

\* handler.py:143-145 -- client disconnect or cancellation of the call, at a
\* suspension point of the generator
Cancel(r) ==
    /\ pc[r] \in {"awaiting", "yielding", "finishing"}
    /\ cancelled' = [cancelled EXCEPT ![r] = TRUE]
    /\ LET thrown == IF pc[r] = "awaiting" THEN "CancelledError" ELSE "GeneratorExit"
       IN  IF IsException(thrown)
           THEN StreamError(r, thrown, "cancel")
           ELSE /\ pc' = [pc EXCEPT ![r] = CancelledPosition(pc[r])]
                /\ pending' = [pending EXCEPT ![r] = <<>>]
                /\ UNCHANGED <<failure, response>>
    /\ UNCHANGED <<toolVars, inputVars, session_id, request_id, runtimeVars, written>>

\* -------------------------------------------------------- non-streaming
DrainPrepend(items, item) == <<item>> \o items

DrainKeepFirst(items, item) == IF items = <<>> THEN <<item>> ELSE items

\* handler.py:181
DrainAppend(items, item) == Append(items, item)

NonStreamErrorRetry(r, ex, site) ==
    /\ failure' = [failure EXCEPT ![r] = [exc |-> ex, site |-> site]]
    /\ pc' = [pc EXCEPT ![r] = "dispatch"]
    /\ UNCHANGED <<response, pending>>

\* handler.py:186-188
NonStreamError(r, ex, site) ==
    /\ failure' = [failure EXCEPT ![r] = [exc |-> ex, site |-> site]]
    /\ response' = [response EXCEPT ![r] = HandleOrRaise(ex)]
    /\ pc' = [pc EXCEPT ![r] = "responded"]
    /\ UNCHANGED pending

\* handler.py:87-93, 160-176
NonStreamStart(r) ==
    /\ pc[r] = "dispatch"
    /\ ~payload[r].stream
    /\ graphCalls' = [graphCalls EXCEPT ![r] = @ + 1]
    /\ \/ /\ \E f \in DispatchFailures : NonStreamError(r, f.exc, f.site)
          /\ UNCHANGED invocations
       \/ /\ Invoke(r)
          /\ pc' = [pc EXCEPT ![r] = "draining"]
          /\ UNCHANGED <<failure, response, pending>>
    /\ UNCHANGED <<toolVars, inputVars, session_id, request_id, produced, pulls, collected,
                   collectCalls, written, cancelled>>

\* handler.py:179-188 -- one turn of `async for item in items`, and what
\* follows the loop
Drain(r) ==
    /\ pc[r] = "draining"
    /\ pulls' = [pulls EXCEPT ![r] = @ + 1]
    /\ \/ /\ Len(produced[r]) < MaxEvents
          /\ \E e \in RuntimeEvents :
                /\ produced' = [produced EXCEPT ![r] = Append(@, e)]
                /\ collected' = [collected EXCEPT ![r] = DrainAppend(@, e)]
          /\ UNCHANGED <<failure, response, pc, collectCalls>>
       \/ /\ response' = [response EXCEPT ![r] =
                 collect(collected[r], request_id[r], payload[r].model)]
          /\ collectCalls' = [collectCalls EXCEPT ![r] = @ + 1]
          /\ pc' = [pc EXCEPT ![r] = "responded"]
          /\ UNCHANGED <<failure, produced, collected>>
       \/ /\ \E ex \in Exceptions : NonStreamError(r, ex, "astream")
          /\ UNCHANGED <<produced, collected, collectCalls>>
    /\ UNCHANGED <<toolVars, inputVars, session_id, request_id, graphCalls, invocations, streamVars>>

\* handler.py:179-181, 186, 95 -- the task that awaits handle() is cancelled
\* while `async for item in items` is suspended: the CancelledError passes both
\* `except Exception` clauses and leaves handle()
CancelNonStream(r) ==
    /\ pc[r] = "draining"
    /\ cancelled' = [cancelled EXCEPT ![r] = TRUE]
    /\ IF HandleCatches("CancelledError")
       THEN NonStreamError(r, "CancelledError", "cancel")
       ELSE /\ pc' = [pc EXCEPT ![r] = "cancelled"]
            /\ response' = [response EXCEPT ![r] = Escaped("CancelledError")]
            /\ UNCHANGED <<failure, pending>>
    /\ UNCHANGED <<toolVars, inputVars, session_id, request_id, runtimeVars, written>>

\* ------------------------------------------------------------------- Next
Next ==
    \E r \in Reqs :
        \/ Validate(r)
        \/ HandleStream(r)
        \/ GenStart(r)
        \/ Pull(r)
        \/ Write(r)
        \/ Cancel(r)
        \/ NonStreamStart(r)
        \/ Drain(r)
        \/ CancelNonStream(r)

Spec == Init /\ [][Next]_vars

\* ---------------------------------------------------- concurrent requests
\* Two requests served by the same handler instance, each with its own
\* Context, session and model; is_agent_proj() is a property of the process.
ConcSession(r) == IF r = 1 THEN "s1" ELSE "s2"
ConcModel(r) == IF r = 1 THEN "m1" ELSE "m2"

ConcPayloads(r) ==
    [messages : {"ok"}, session : {ConcSession(r)}, stream : BOOLEAN,
     model : {ConcModel(r)}, recursion_limit : {0}]

InitConc ==
    /\ pc = [r \in Reqs |-> "received"]
    /\ payload \in {f \in [Reqs -> UNION {ConcPayloads(r) : r \in Reqs}] :
                       \A r \in Reqs : f[r] \in ConcPayloads(r)}
    /\ \E ap \in BOOLEAN :
          env = [r \in Reqs |-> [IdleEnv EXCEPT !.agentProj = ap]]
    /\ session_id = [r \in Reqs |-> NoValue]
    /\ request_id = [r \in Reqs |-> NoValue]
    /\ failure = [r \in Reqs |-> NoFailure]
    /\ response = [r \in Reqs |-> NoResponse]
    /\ graphCalls = [r \in Reqs |-> 0]
    /\ invocations = [r \in Reqs |-> <<>>]
    /\ produced = [r \in Reqs |-> <<>>]
    /\ pulls = [r \in Reqs |-> 0]
    /\ collected = [r \in Reqs |-> <<>>]
    /\ collectCalls = [r \in Reqs |-> 0]
    /\ pending = [r \in Reqs |-> <<>>]
    /\ written = [r \in Reqs |-> <<>>]
    /\ cancelled = [r \in Reqs |-> FALSE]
    /\ ToolsIdle

\* The runtime behaviours explored for two requests at once: short event
\* streams, and two kinds of failure.
ConcExceptions == {"Timeout", "Unknown"}

ConcBound ==
    \A r \in Reqs :
        /\ Len(produced[r]) <= MaxConcEvents
        /\ failure[r].exc \in ConcExceptions \cup {NoValue}

NextConc ==
    \E r \in Reqs :
        \/ Validate(r) /\ ConcBound'
        \/ HandleStream(r) /\ ConcBound'
        \/ GenStart(r) /\ ConcBound'
        \/ Pull(r) /\ ConcBound'
        \/ Write(r) /\ ConcBound'
        \/ Cancel(r) /\ ConcBound'
        \/ NonStreamStart(r) /\ ConcBound'
        \/ Drain(r) /\ ConcBound'
        \/ CancelNonStream(r) /\ ConcBound'

SpecConc == InitConc /\ [][NextConc]_vars

\* ============================================================ properties
IsDelta(f) == f.kind = "delta"

CountDone(frames) == Cardinality({i \in 1..Len(frames) : frames[i].kind = "done"})

IsPrefix(s, t) == Len(s) <= Len(t) /\ SubSeq(t, 1, Len(s)) = s

RECURSIVE JoinDeltaContent(_)
JoinDeltaContent(frames) ==
    IF frames = <<>> THEN ""
    ELSE (IF Head(frames).kind = "delta" THEN Head(frames).content ELSE "")
         \o JoinDeltaContent(Tail(frames))

ValidationSites == {"parse", "get_session_id", "to_stream_input"}

NotDispatched(r) == graphCalls[r] = 0 /\ invocations[r] = <<>>

\* C1: the frames written for a streaming request never hold more than one
\* terminal marker, a marker that was written is the last frame, and a stream
\* that has run to its end (normally or after a failure at any position,
\* graph resolution included) holds exactly one.
C1_OneTerminalMarkerLast ==
    \A r \in Reqs :
        LET w == written[r]
        IN  /\ CountDone(w) <= 1
            /\ CountDone(w) = 1 => w[Len(w)].kind = "done"
            /\ pc[r] = "closed" => CountDone(w) = 1

\* the stream of a request whose graph could not be resolved has ended
C1_Witness ==
    /\ pc[1] = "closed"
    /\ failure[1].site = "get_graph"
    /\ invocations[1] = <<>>
    /\ Len(written[1]) = 2

\* C2: once the runtime's event stream has raised, the frames written and
\* still to be written are the delta frames of the events produced before
\* the failure, in order, then one error frame (an `error` object with the
\* classifier's code, no `choices`), then the terminal marker.
C2_ErrorFrameThenDone ==
    \A r \in Reqs :
        (failure[r].site = "astream" /\ payload[r].stream /\ ~cancelled[r]) =>
            LET all == written[r] \o pending[r]
                k == Len(all) - 2
            IN  /\ k >= 0
                /\ SubSeq(all, 1, k) =
                       DeltaChunksOf(produced[r], request_id[r], payload[r].model)
                /\ all[k + 1].kind = "error"
                /\ "error" \in all[k + 1].keys
                /\ "choices" \notin all[k + 1].keys
                /\ all[k + 1].code = CodeOf(failure[r].exc)
                /\ all[k + 2] = DoneFrame
                /\ pc[r] = "closed" => pending[r] = <<>>

\* the runtime raised after one delta: delta, error frame, terminal marker
C2_Witness ==
    /\ pc[1] = "closed"
    /\ failure[1].site = "astream"
    /\ Len(written[1]) = 3
    /\ written[1][1].kind = "delta"
    /\ written[1][2].kind = "error"

\* C3: from the step that cancels a streaming response on, nothing is
\* written, nothing is left to be yielded, no failure is recorded and the
\* generator is in its cancelled position: no error frame, no terminal marker.
C3_NoWriteAfterCancel ==
    [][\A r \in Reqs :
          cancelled'[r] =>
              /\ written'[r] = written[r]
              /\ pending'[r] = <<>>
              /\ failure'[r] = failure[r]
              /\ pc'[r] = "cancelled"]_vars

\* a stream cancelled after its first frame went out
C3_Witness ==
    /\ cancelled[1]
    /\ pc[1] = "cancelled"
    /\ Len(written[1]) >= 1
    /\ Len(produced[1]) >= 2

\* C4: a request whose payload lacks `messages` never reaches the runtime,
\* and its response is a 400 of type invalid_request_error.
C4_MissingMessages400 ==
    \A r \in Reqs :
        payload[r].messages = "missing" =>
            /\ NotDispatched(r)
            /\ pc[r] \in {"idle", "received", "responded"}
            /\ pc[r] = "responded" =>
                   /\ response[r].status = 400
                   /\ response[r].etype = "invalid_request_error"

\* a payload with a session id and no messages has been answered
C4_Witness ==
    /\ pc[1] = "responded"
    /\ payload[1].messages = "missing"
    /\ payload[1].session # ""
    /\ failure[1].site = "parse"

\* C5: a request from which no session identifier can be derived never
\* reaches the runtime, and its response is a 400.
C5_NoSession400 ==
    \A r \in Reqs :
        DerivedSessionId(payload[r], env[r]) = "" =>
            /\ NotDispatched(r)
            /\ pc[r] \in {"idle", "received", "responded"}
            /\ pc[r] = "responded" => response[r].status = 400

\* get_session_id returned an empty value for a request with messages
C5_Witness ==
    /\ pc[1] = "responded"
    /\ payload[1].messages = "ok"
    /\ DerivedSessionId(payload[1], env[1]) = ""
    /\ env[1].sidMode = "empty"
    /\ response[1].code = "400001"

\* C6: a failure raised by parse, get_session_id or to_stream_input is
\* answered with an error body whose status is 4xx, and the runtime is not
\* reached.
C6_ValidationFailure4xx ==
    \A r \in Reqs :
        failure[r].site \in ValidationSites =>
            /\ pc[r] = "responded"
            /\ response[r].kind = "json_error"
            /\ response[r].status >= 400
            /\ response[r].status < 500
            /\ NotDispatched(r)

\* to_stream_input raised
C6_Witness ==
    /\ failure[1].site = "to_stream_input"
    /\ pc[1] = "responded"

\* C7: the content of a successful non-streaming response equals the
\* delta.content of the frames iter_stream emits for the same events,
\* joined in emission order.
C7_JoinEquivalence ==
    \A r \in Reqs :
        (pc[r] = "responded" /\ response[r].kind = "json") =>
            response[r].content =
                JoinDeltaContent(iter_stream(produced[r], request_id[r], payload[r].model))

\* a drained stream of three events, two of them with different text
C7_Witness ==
    /\ pc[1] = "responded"
    /\ response[1].kind = "json"
    /\ response[1].content = "ab"
    /\ Len(produced[1]) = 3

\* C8: the delta frames written are, in order, the frames of the first text
\* events the runtime produced, one frame per event; until the stream is
\* cancelled the only frame missing is the one the generator is suspended on.
C8_FramesInEventOrder ==
    \A r \in Reqs :
        LET all == DeltaChunksOf(produced[r], request_id[r], payload[r].model)
        IN  payload[r].stream =>
                /\ IsPrefix(SelectSeq(written[r], IsDelta), all)
                /\ ~cancelled[r] => SelectSeq(written[r] \o pending[r], IsDelta) = all
                /\ Len(SelectSeq(pending[r], IsDelta)) <= 1

\* two different deltas, around an event without text, have been written
C8_Witness ==
    /\ pc[1] = "awaiting"
    /\ produced[1] = <<[kind |-> "delta", text |-> "a"], ToolEvent,
                       [kind |-> "delta", text |-> "b"]>>
    /\ Len(written[1]) = 2
    /\ written[1][1].content = "a"
    /\ written[1][2].content = "b"

\* C9: every graph.astream call carries recursion_limit 100 and the
\* thread_id derived from the request's own session identifier.
C9_FixedRunConfig ==
    \A r \in Reqs :
        \A i \in 1..Len(invocations[r]) :
            /\ invocations[r][i].config.recursion_limit = 100
            /\ invocations[r][i].config.thread_id = DerivedSessionId(payload[r], env[r])
            /\ invocations[r][i].config.thread_id # ""

\* the runtime was invoked for a payload that carries its own recursion_limit
C9_Witness ==
    /\ Len(invocations[1]) = 1
    /\ payload[1].recursion_limit = 7
    /\ payload[1].session = ""
    /\ invocations[1][1].config.thread_id = "amb"

\* C10: the status of an error response built by _handle_error follows the
\* classified category: Invalid or BadRequest 400, NotFound 404, TimeOut 408,
\* anything else 500.
C10_StatusByCategory ==
    \A r \in Reqs :
        (failure[r].site # NoValue /\ response[r].kind = "json_error") =>
            LET c == classify_error(failure[r].exc).category
            IN  /\ c \in {"Invalid", "BadRequest"} => response[r].status = 400
                /\ c = "NotFound" => response[r].status = 404
                /\ c = "TimeOut" => response[r].status = 408
                /\ c \notin {"Invalid", "BadRequest", "NotFound", "TimeOut"} =>
                       response[r].status = 500

\* the runtime timed out while a non-streaming request was being drained
C10_Witness ==
    /\ failure[1] = [exc |-> "Timeout", site |-> "astream"]
    /\ ~payload[1].stream
    /\ response[1].status = 408
    /\ Len(produced[1]) >= 1

\* C11: the error object of the in-band error frame has the type and the
\* code of the error body _handle_error builds for the same failure.
C11_SameErrorObjectInBothModes ==
    \A r \in Reqs :
        \A i \in 1..Len(written[r]) :
            written[r][i].kind = "error" =>
                /\ written[r][i].etype = HandleError(failure[r].exc).etype
                /\ written[r][i].code = HandleError(failure[r].exc).code

\* C12: on the non-streaming path collect is called at most once, only after
\* the runtime's stream has signalled its end and with every event it
\* produced; a successful response comes from that one call; when the
\* runtime raises during the drain collect is not called and the error body
\* has no content.
C12_DrainThenCollectOnce ==
    \A r \in Reqs :
        ~payload[r].stream =>
            /\ collectCalls[r] <= 1
            /\ collectCalls[r] = 1 =>
                   /\ pc[r] = "responded"
                   /\ response[r].kind = "json"
                   /\ collected[r] = produced[r]
                   /\ pulls[r] = Len(produced[r]) + 1
            /\ (pc[r] = "responded" /\ response[r].kind = "json") => collectCalls[r] = 1
            /\ failure[r].site = "astream" =>
                   /\ collectCalls[r] = 0
                   /\ response[r].kind = "json_error"
                   /\ response[r].content = NoValue

\* three events were drained and collected into one body
C12_Witness ==
    /\ ~payload[1].stream
    /\ collectCalls[1] = 1
    /\ Len(collected[1]) = 3
    /\ response[1].status = 200

TerminalPositions == {"responded", "closed", "cancelled"}

\* C13: a request resolves the graph and invokes the runtime at most once;
\* after a failure it neither resolves, invokes nor pulls again; nothing is
\* written after the terminal marker; and a request in a terminal position
\* (JSON body returned, stream closed or cancelled) does not change any more.
C13_TerminalNoRetry ==
    [][\A r \in Reqs :
          /\ Len(invocations'[r]) <= 1
          /\ graphCalls'[r] <= 1
          /\ failure[r] # NoFailure =>
                 /\ invocations'[r] = invocations[r]
                 /\ graphCalls'[r] = graphCalls[r]
                 /\ pulls'[r] = pulls[r]
                 /\ failure'[r] = failure[r]
          /\ CountDone(written[r]) >= 1 => written'[r] = written[r]
          /\ pc[r] \in TerminalPositions =>
                 /\ pc'[r] = pc[r]
                 /\ written'[r] = written[r]
                 /\ response'[r] = response[r]
                 /\ invocations'[r] = invocations[r]
                 /\ pulls'[r] = pulls[r]]_vars

\* a non-streaming request failed while it was drained, after one invocation
C13_Witness ==
    /\ pc[1] = "responded"
    /\ ~payload[1].stream
    /\ failure[1].site = "astream"
    /\ Len(invocations[1]) = 1
    /\ graphCalls[1] = 1
    /\ pulls[1] = 2

\* C14: with two requests interleaved, every frame and body of a request
\* carries that request's own id and model, its deltas and content are those
\* of its own events, and its runtime invocation carries its own thread_id
\* and context.
C14_RequestsIndependent ==
    \A r \in Reqs :
        LET ownId == "chatcmpl-" \o RunId(r)
            frames == written[r] \o pending[r]
        IN  /\ \A i \in 1..Len(frames) :
                   /\ frames[i].kind # "done" => frames[i].id = ownId
                   /\ frames[i].kind \in {"delta", "finish"} =>
                          frames[i].model = payload[r].model
            /\ IsPrefix(SelectSeq(written[r], IsDelta),
                        DeltaChunksOf(produced[r], ownId, payload[r].model))
            /\ response[r].kind = "json" =>
                   /\ response[r].id = ownId
                   /\ response[r].model = payload[r].model
                   /\ response[r].content = CollectContent(produced[r])
            /\ \A i \in 1..Len(invocations[r]) :
                   /\ invocations[r][i].config.thread_id = payload[r].session
                   /\ invocations[r][i].context = RunId(r)
            /\ \A q \in Reqs \ {r} :
                   \A i \in 1..Len(frames) :
                       frames[i].kind # "done" => frames[i].id # "chatcmpl-" \o RunId(q)

\* one request is streaming its second frame while the other is being drained
C14_Witness ==
    /\ pc[2] = "yielding"
    /\ Len(written[2]) = 1
    /\ pc[1] = "draining"
    /\ Len(collected[1]) = 1
    /\ written[2][1].id = "chatcmpl-run2"
    /\ written[2][1].model = "m2"

\* C15: when to_stream_input hands back a runtime input with zero messages,
\* the response is a 400 of type invalid_request_error with code 400002, for
\* either value of the stream flag, and the runtime is never reached.
C15_EmptyInput400 ==
    \A r \in Reqs :
        (/\ payload[r].messages = "empty"
         /\ env[r].tsiMode = "empty"
         /\ DerivedSessionId(payload[r], env[r]) # "") =>
            /\ NotDispatched(r)
            /\ pulls[r] = 0
            /\ pc[r] \in {"received", "responded"}
            /\ pc[r] = "responded" =>
                   /\ response[r].kind = "json_error"
                   /\ response[r].status = 400
                   /\ response[r].etype = "invalid_request_error"
                   /\ response[r].code = "400002"

\* a stream=true request whose input mapped to no message was answered
C15_Witness ==
    /\ pc[1] = "responded"
    /\ payload[1].stream
    /\ payload[1].messages = "empty"
    /\ env[1].tsiMode = "empty"
    /\ response[1].code = "400002"
    /\ request_id[1] = "chatcmpl-run1"

\* C16: a streaming request does not resolve the graph, invoke or pull before
\* the client consumes the body; a failure while the graph is resolved, the
\* trace configuration built or the runtime's stream started leaves the
\* response a 200 text/event-stream one, whose frames are one error frame
\* and then the terminal marker.
C16_DispatchFailureInBand ==
    \A r \in Reqs :
        payload[r].stream =>
            /\ pc[r] \in {"received", "dispatch", "gen_created"} =>
                   /\ NotDispatched(r)
                   /\ pulls[r] = 0
            /\ (\/ failure[r].site \in {"get_graph", "init_config"}
                \/ failure[r].site = "astream" /\ pulls[r] = 1) =>
                   /\ response[r].kind = "stream"
                   /\ response[r].status = 200
                   /\ response[r].media = "text/event-stream"
                   /\ ~cancelled[r] =>
                          LET all == written[r] \o pending[r]
                          IN  /\ Len(all) = 2
                              /\ all[1].kind = "error"
                              /\ all[1].code = CodeOf(failure[r].exc)
                              /\ all[2].kind = "done"

\* building the trace configuration failed; both frames have gone out
C16_Witness ==
    /\ payload[1].stream
    /\ failure[1].site = "init_config"
    /\ pc[1] = "closed"
    /\ Len(written[1]) = 2
    /\ response[1].status = 200

\* C17: from the step that cancels a streaming response on, the runtime's
\* event stream is not asked for another event and produces none.
C17_NoPullAfterCancel ==
    [][\A r \in Reqs :
          cancelled'[r] =>
              /\ pulls'[r] = pulls[r]
              /\ produced'[r] = produced[r]]_vars

\* cancelled while the generator awaited its third event, two frames written
C17_Witness ==
    /\ cancelled[1]
    /\ pulls[1] = 2
    /\ Len(written[1]) = 2
    /\ failure[1] = NoFailure

\* C18: a streaming request asks the runtime for one event at a time, and
\* only when no frame is waiting to be written: every frame of the events
\* produced so far has been handed to the client, and at most one delta
\* frame is ever pending.
C18_UnbufferedSingleFlow ==
    [][\A r \in Reqs :
          payload[r].stream =>
              /\ pulls'[r] # pulls[r] =>
                     /\ pulls'[r] = pulls[r] + 1
                     /\ pc[r] = "awaiting"
                     /\ pending[r] = <<>>
                     /\ SelectSeq(written[r], IsDelta) =
                            DeltaChunksOf(produced[r], request_id[r], payload[r].model)
              /\ Len(SelectSeq(pending'[r], IsDelta)) <= 1
              /\ Len(DeltaChunksOf(produced'[r], request_id'[r], payload[r].model))
                     - Len(SelectSeq(written'[r], IsDelta)) <= 1]_vars

\* the second event was asked for after the first frame was written, and
\* its frame is now the only one pending
C18_Witness ==
    /\ payload[1].stream
    /\ pc[1] = "yielding"
    /\ pulls[1] = 2
    /\ Len(written[1]) = 1
    /\ Len(pending[1]) = 1
    /\ Len(produced[1]) = 2

\* C19: every frame of a streaming response that has an id (each chunk and
\* the error frame; the terminal marker is the bare literal [DONE]) carries
\* the request id chatcmpl-<run_id> the response converter was built with.
C19_StableFrameId ==
    \A r \in Reqs :
        LET frames == written[r] \o pending[r]
        IN  \A i \in 1..Len(frames) :
                "id" \in frames[i].keys =>
                    /\ frames[i].id = request_id[r]
                    /\ frames[i].id = "chatcmpl-" \o RunId(r)
                    /\ \A j \in 1..Len(frames) :
                           "id" \in frames[j].keys => frames[j].id = frames[i].id

\* two delta chunks and then the error frame went out under one id
C19_Witness ==
    /\ Len(written[1]) = 4
    /\ written[1][1].kind = "delta"
    /\ written[1][2].kind = "delta"
    /\ written[1][3].kind = "error"
    /\ written[1][3].id = written[1][1].id
    /\ written[1][3].id = "chatcmpl-run1"

Invoked(r) == invocations[r] # <<>>

\* C20 as stated: the stream flag chooses the trace configuration, so two
\* requests with different stream flags are dispatched with different ones.
C20_TraceConfigByStreamFlag ==
    \A r, q \in Reqs :
        (Invoked(r) /\ Invoked(q) /\ payload[r].stream # payload[q].stream) =>
            invocations[r][1].config.callbacks # invocations[q][1].config.callbacks

\* C20 amended: the trace configuration of every invocation is the agent one
\* in an agent project and the graph one otherwise, on the streaming and the
\* non-streaming path alike; the stream flag has no part in it.
C20_TraceConfigByProjectKind ==
    \A r \in Reqs :
        \A i \in 1..Len(invocations[r]) :
            /\ invocations[r][i].config.callbacks =
                   (IF env[r].agentProj THEN "agent" ELSE "graph")
            /\ \A q \in Reqs :
                   Invoked(q) =>
                       invocations[q][1].config.callbacks =
                           invocations[r][i].config.callbacks

\* a streaming and a non-streaming request were both dispatched, in a project
\* that is not an agent project
C20_Witness ==
    /\ Invoked(1)
    /\ Invoked(2)
    /\ payload[1].stream
    /\ ~payload[2].stream
    /\ ~env[1].agentProj
    /\ invocations[1][1].config.callbacks = "graph"
    /\ invocations[2][1].config.callbacks = "graph"

\* ================================================================ agent state
\* src/backend/src/agents/agent.py: the reducer of AgentState.messages.

MAX_MESSAGES == 40

MaxBatch == 2        \* messages one state update appends at most
MaxAppended == 43    \* message ids handed out at most
MaxEdits == 1        \* updates that revise, remove or resend a message

\* A message as the reducer sees it: its id, a revision number standing for
\* its content, and whether it is a RemoveMessage.
Message(id, rev) == [id |-> id, rev |-> rev, remove |-> FALSE]

RemoveMessage(id) == [id |-> id, rev |-> 0, remove |-> TRUE]

\* k new messages with the ids from `first` on.
FreshMessages(first, k) == [i \in 1..k |-> Message(first + i - 1, 0)]

\* The index of the message with this id, 0 when there is none.
IndexOfId(list, id) ==
    IF \E i \in 1..Len(list) : list[i].id = id
    THEN CHOOSE i \in 1..Len(list) : list[i].id = id
    ELSE 0

\* add_messages walks the update: a message whose id is already in the list
\* replaces that entry in place, any other is appended.
RECURSIVE MergeById(_, _)
MergeById(list, right) ==
    IF right = <<>>
    THEN list
    ELSE LET m == Head(right)
             i == IndexOfId(list, m.id)
         IN MergeById(IF i = 0 THEN Append(list, m) ELSE [list EXCEPT ![i] = m],
                      Tail(right))

\* add_messages(left, right): merge by id, then drop what a RemoveMessage marked.
add_messages(left, right) ==
    SelectSeq(MergeById(left, right), LAMBDA m : ~m.remove)

\* list[-n:]
LastN(list, n) ==
    SubSeq(list, IF Len(list) > n THEN Len(list) - n + 1 ELSE 1, Len(list))

\* list[:n]
FirstN(list, n) ==
    SubSeq(list, 1, IF Len(list) > n THEN n ELSE Len(list))

windowed_messages_head(old, new) == FirstN(add_messages(old, new), MAX_MESSAGES)

\* _windowed_messages(old, new) = add_messages(old, new)[-MAX_MESSAGES:]
windowed_messages(old, new) == LastN(add_messages(old, new), MAX_MESSAGES)

\* One state update: the graph hands `new` to the reducer of `messages`.
UpdateMessages(new, fresh, edit) ==
    /\ merged' = add_messages(messages, new)
    /\ messages' = windowed_messages(messages, new)
    /\ nextId' = nextId + fresh
    /\ edits' = edits + edit
    /\ UNCHANGED <<handlerVars, sqlVars>>

\* A node returns k new messages.
AppendNew ==
    \E k \in 1..MaxBatch :
        /\ nextId + k - 1 <= MaxAppended
        /\ UpdateMessages(FreshMessages(nextId, k), k, 0)

\* A node returns a new version of a message still in the list (the oldest or
\* the newest), alone or followed by one new message.
ReviseExisting ==
    \E i \in {1, Len(messages)}, k \in 0..1 :
        /\ messages # <<>>
        /\ edits < MaxEdits
        /\ nextId + k - 1 <= MaxAppended
        /\ UpdateMessages(<<Message(messages[i].id, messages[i].rev + 1)>>
                              \o FreshMessages(nextId, k), k, 1)

\* A node returns a RemoveMessage for a message still in the list.
RemoveExisting ==
    \E i \in {1, Len(messages)} :
        /\ messages # <<>>
        /\ edits < MaxEdits
        /\ UpdateMessages(<<RemoveMessage(messages[i].id)>>, 0, 1)

\* A node returns a message whose id has already left the window.
ResendEvicted ==
    /\ edits < MaxEdits
    /\ nextId > 1
    /\ IndexOfId(messages, 1) = 0
    /\ UpdateMessages(<<Message(1, 1)>>, 0, 1)

HandlerIdle ==
    /\ pc = [r \in Reqs |-> "idle"]
    /\ payload = [r \in Reqs |-> IdlePayload]
    /\ env = [r \in Reqs |-> IdleEnv]
    /\ session_id = [r \in Reqs |-> NoValue]
    /\ request_id = [r \in Reqs |-> NoValue]
    /\ failure = [r \in Reqs |-> NoFailure]
    /\ response = [r \in Reqs |-> NoResponse]
    /\ graphCalls = [r \in Reqs |-> 0]
    /\ invocations = [r \in Reqs |-> <<>>]
    /\ produced = [r \in Reqs |-> <<>>]
    /\ pulls = [r \in Reqs |-> 0]
    /\ collected = [r \in Reqs |-> <<>>]
    /\ collectCalls = [r \in Reqs |-> 0]
    /\ pending = [r \in Reqs |-> <<>>]
    /\ written = [r \in Reqs |-> <<>>]
    /\ cancelled = [r \in Reqs |-> FALSE]

InitWindow == HandlerIdle /\ ToolsIdle

NextWindow ==
    \/ AppendNew
    \/ ReviseExisting
    \/ RemoveExisting
    \/ ResendEvicted

SpecWindow == InitWindow /\ [][NextWindow]_vars

\* C21: after every state update the message list has at most MAX_MESSAGES
\* entries, holds each message id once, and is exactly the tail of the merged
\* list (the whole merged list while that has at most MAX_MESSAGES entries),
\* so the last message of the merged list is always kept.
C21_WindowIsTailOfMerged ==
    /\ Len(messages) <= MAX_MESSAGES
    /\ Len(messages) = (IF Len(merged) > MAX_MESSAGES THEN MAX_MESSAGES ELSE Len(merged))
    /\ \A i \in 1..Len(messages) :
           messages[i] = merged[Len(merged) - Len(messages) + i]
    /\ \A i, j \in 1..Len(messages) : messages[i].id = messages[j].id => i = j
    /\ merged # <<>> => /\ messages # <<>>
                        /\ messages[Len(messages)] = merged[Len(merged)]

C21_Witness ==
    /\ Len(merged) > MAX_MESSAGES
    /\ Len(messages) = MAX_MESSAGES
    /\ messages[1].id > 1
    /\ edits > 0

\* ============================================================ SQL query tool
\* src/backend/src/tools/sql_query_tool.py: execute_sql_query(sql, runtime).
\* A text is a sequence of one-character strings.

MaxSqlCalls == 2     \* calls of the tool in one behaviour
MaxRows == 1         \* rows a query returns at most

LowerCase == <<"a", "b", "c", "d", "e", "f", "g", "h", "i", "j", "k", "l", "m", "n", "o", "p", "q", "r", "s", "t", "u", "v", "w", "x", "y", "z">>

UpperCase == <<"A", "B", "C", "D", "E", "F", "G", "H", "I", "J", "K", "L", "M", "N", "O", "P", "Q", "R", "S", "T", "U", "V", "W", "X", "Y", "Z">>

Whitespace == {" ", "\t", "\n"}

StatementSeparator == ";"

KwSelect == <<"S", "E", "L", "E", "C", "T">>

KwInsert == <<"I", "N", "S", "E", "R", "T">>

KwUpdate == <<"U", "P", "D", "A", "T", "E">>

KwDelete == <<"D", "E", "L", "E", "T", "E">>

KwDrop == <<"D", "R", "O", "P">>

KwCommit == <<"C", "O", "M", "M", "I", "T">>

\* What the tool's documentation forbids (sql_query_tool.py:68).
ForbiddenKeywords == {KwInsert, KwUpdate, KwDelete, KwDrop}

\* The statements the database of this model understands.
KnownKeywords == ForbiddenKeywords \cup {KwSelect, KwCommit}

\* The `sql` arguments the agent passes.
SqlInputs ==
    { <<"S", "E", "L", "E", "C", "T", " ", "1">>,
      <<" ", "s", "e", "l", "e", "c", "t", " ", "1", "\n">>,
      <<"S", "E", "L", "E", "C", "T", "E", "D">>,
      <<>>,
      <<"D", "R", "O", "P", " ", "t">>,
      <<"d", "e", "l", "e", "t", "e", " ", "t">>,
      <<"\t", "U", "p", "d", "a", "t", "e", " ", "t">>,
      <<"I", "N", "S", "E", "R", "T", " ", "t">>,
      <<"S", "E", "L", "E", "C", "T", " ", "1", ";">>,
      <<"S", "E", "L", "E", "C", "T", " ", "1", ";", "D", "R", "O", "P", " ", "t">>,
      <<"s", "e", "l", "e", "c", "t", " ", "1", ";", " ", "d", "e", "l", "e", "t", "e", " ", "t", ";", "C", "O", "M", "M", "I", "T">> }

\* str.upper(), one character
UpperChar(c) ==
    IF \E i \in 1..Len(LowerCase) : LowerCase[i] = c
    THEN UpperCase[CHOOSE i \in 1..Len(LowerCase) : LowerCase[i] = c]
    ELSE c

\* str.upper()
Upper(s) == [i \in 1..Len(s) |-> UpperChar(s[i])]

RECURSIVE LStrip(_)
LStrip(s) ==
    IF s # <<>> /\ Head(s) \in Whitespace THEN LStrip(Tail(s)) ELSE s

RECURSIVE RStrip(_)
RStrip(s) ==
    IF s # <<>> /\ s[Len(s)] \in Whitespace
    THEN RStrip(SubSeq(s, 1, Len(s) - 1))
    ELSE s

\* str.strip()
Strip(s) == RStrip(LStrip(s))

\* str.startswith(prefix)
StartsWith(s, prefix) ==
    /\ Len(s) >= Len(prefix)
    /\ SubSeq(s, 1, Len(prefix)) = prefix

\* sql.strip().upper().startswith('SELECT')
IsSelect(sql) == StartsWith(Upper(Strip(sql)), KwSelect)

\* The text split at the statement separators, as the database server does
\* with a string of several statements; empty statements are skipped.
RECURSIVE SplitStatements(_, _)
SplitStatements(s, current) ==
    LET done == IF Strip(current) = <<>> THEN <<>> ELSE <<Strip(current)>>
    IN IF s = <<>>
       THEN done
       ELSE IF Head(s) = StatementSeparator
            THEN done \o SplitStatements(Tail(s), <<>>)
            ELSE SplitStatements(Tail(s), Append(current, Head(s)))

\* The leading keyword of a statement, upper-cased.
RECURSIVE LeadingLetters(_)
LeadingLetters(s) ==
    IF s # <<>> /\ \E i \in 1..Len(UpperCase) : UpperCase[i] = Head(s)
    THEN <<Head(s)>> \o LeadingLetters(Tail(s))
    ELSE <<>>

StatementKind(stmt) == LeadingLetters(Upper(Strip(stmt)))

StatementKinds(sql) ==
    LET stmts == SplitStatements(sql, <<>>)
    IN [i \in 1..Len(stmts) |-> StatementKind(stmts[i])]

\* What db.execute(text(sql)) can do with the text, depending on the driver
\* and the server behind get_session(): run the first n statements (each one
\* the database understands) and then either return a result, when it ran
\* them all, or raise.
ExecuteOutcomes(sql) ==
    LET kinds == StatementKinds(sql)
        runnable == {m \in 0..Len(kinds) : \A i \in 1..m : kinds[i] \in KnownKeywords}
    IN {[ran |-> SubSeq(kinds, 1, m), ok |-> FALSE] : m \in runnable}
           \cup {[ran |-> kinds, ok |-> TRUE] : m \in runnable \cap {Len(kinds)}}

NotSelectText == "Error: Only SELECT queries are allowed for data analysis."

NoResultsText == "Query returned no results."

JsonText == "{columns, row_count, data}"

ExecErrorText == "Error executing SQL query: <e>. Please check your SQL syntax and try again."

\* How a call ended: the string it returned or that it raised, and the
\* position it left from.
NoReturn == [text |-> NoValue, raised |-> FALSE, from |-> NoValue]

Returned(text, position) == [text |-> text, raised |-> FALSE, from |-> position]

Raised(position) == [text |-> NoValue, raised |-> TRUE, from |-> position]

\* The agent calls the tool.
SqlCall ==
    \E sql \in SqlInputs :
        /\ sqlPc = "idle"
        /\ sqlCalls < MaxSqlCalls
        /\ sqlPc' = "validate"
        /\ sqlText' = sql
        /\ sqlCalls' = sqlCalls + 1
        /\ sqlRows' = 0
        /\ toolResult' = NoReturn
        /\ UNCHANGED <<handlerVars, windowVars, dbOpen, dbOpened, executed>>

\* Lines 72-77: the prefix test, then get_session().
SqlValidate ==
    /\ sqlPc = "validate"
    /\ IF ~IsSelect(sqlText)
       THEN /\ sqlPc' = "idle"
            /\ toolResult' = Returned(NotSelectText, "validate")
            /\ UNCHANGED <<dbOpen, dbOpened>>
       ELSE \/ /\ sqlPc' = "try"
               /\ dbOpen' = dbOpen + 1
               /\ dbOpened' = dbOpened + 1
               /\ UNCHANGED toolResult
            \/ /\ sqlPc' = "idle"
               /\ toolResult' = Raised("get_session")
               /\ UNCHANGED <<dbOpen, dbOpened>>
    /\ UNCHANGED <<handlerVars, windowVars, sqlText, sqlCalls, executed, sqlRows>>

\* Lines 80-82: db.execute(text(sql)), fetchall(), keys().
SqlExecute ==
    \E o \in ExecuteOutcomes(sqlText), n \in 0..MaxRows :
        /\ sqlPc = "try"
        /\ executed' = executed \o o.ran
        /\ IF o.ok
           THEN \/ /\ sqlPc' = "format"
                   /\ sqlRows' = n
                \/ /\ sqlPc' = "except"      \* fetchall() raises
                   /\ n = 0
                   /\ UNCHANGED sqlRows
           ELSE /\ sqlPc' = "except"
                /\ n = 0
                /\ UNCHANGED sqlRows
        /\ UNCHANGED <<handlerVars, windowVars, sqlText, sqlCalls, dbOpen, dbOpened, toolResult>>

\* Lines 85-105: build the row dictionaries and choose the return value.
SqlFormat ==
    /\ sqlPc = "format"
    /\ \/ sqlPc' = (IF sqlRows = 0 THEN "return_empty" ELSE "return_rows")
       \/ /\ sqlRows > 0
          /\ sqlPc' = "except"               \* str(value) or json.dumps raises
    /\ UNCHANGED <<handlerVars, windowVars, sqlText, sqlCalls, dbOpen, dbOpened,
                   executed, sqlRows, toolResult>>

\* What the call returns from each position (lines 99, 101-105, 108).
ReturnValue(position) ==
    CASE position = "return_empty" -> Returned(NoResultsText, position)
      [] position = "return_rows" -> Returned(JsonText, position)
      [] position = "except" -> Returned(ExecErrorText, position)

ClosesOnReturnOnly(position) == position # "except"

\* Lines 109-110: `finally: db.close()` runs on every way out of the try.
ClosesSession(position) == TRUE

\* Lines 107-110: the except clause, the finally clause, and the return.
SqlFinally ==
    /\ sqlPc \in {"return_empty", "return_rows", "except"}
    /\ dbOpen' = (IF ClosesSession(sqlPc) THEN dbOpen - 1 ELSE dbOpen)
    /\ toolResult' = ReturnValue(sqlPc)
    /\ sqlPc' = "idle"
    /\ UNCHANGED <<handlerVars, windowVars, sqlText, sqlCalls, dbOpened, executed, sqlRows>>

InitSql == HandlerIdle /\ ToolsIdle

NextSql ==
    \/ SqlCall
    \/ SqlValidate
    \/ SqlExecute
    \/ SqlFormat
    \/ SqlFinally

SpecSql == InitSql /\ [][NextSql]_vars

\* C22: the database never executes an INSERT, UPDATE, DELETE or DROP
\* statement, and a call whose trimmed, upper-cased text does not start with
\* SELECT returns the error string and opens no database session.
C22_OnlySelectExecuted ==
    /\ \A i \in 1..Len(executed) : executed[i] \notin ForbiddenKeywords
    /\ (sqlPc = "idle" /\ sqlCalls > 0 /\ ~IsSelect(sqlText))
           => /\ toolResult = Returned(NotSelectText, "validate")
              /\ dbOpen = 0

\* What does hold of the prefix test: a first call with a text it rejects
\* returns the error string, opens no session and executes nothing.
RejectedOpensNoSession ==
    (sqlCalls = 1 /\ ~IsSelect(sqlText) /\ sqlPc = "idle")
        => /\ toolResult = Returned(NotSelectText, "validate")
           /\ dbOpened = 0
           /\ executed = <<>>

\* C23: a call that has returned has closed the session it opened, whether it
\* returned rows, no rows, or failed while executing or formatting; at most
\* one session is open during a call, and a failure inside the try block is
\* returned as the error string; only a failure of get_session(), which opens
\* no session, is raised.
C23_SessionClosedOnEveryPath ==
    /\ dbOpen \in {0, 1}
    /\ sqlPc \in {"idle", "validate"} => dbOpen = 0
    /\ sqlPc \in {"try", "format", "return_empty", "return_rows", "except"} => dbOpen = 1
    /\ toolResult.from = "except"
           => /\ ~toolResult.raised
              /\ toolResult.text = ExecErrorText
    /\ toolResult.from \in {"return_empty", "return_rows"}
           => /\ ~toolResult.raised
              /\ toolResult.text = (IF sqlRows = 0 THEN NoResultsText ELSE JsonText)
    /\ toolResult.raised => toolResult.from = "get_session"

C23_Witness ==
    /\ sqlPc = "idle"
    /\ sqlCalls = MaxSqlCalls
    /\ dbOpened = MaxSqlCalls
    /\ dbOpen = 0
    /\ toolResult = Returned(ExecErrorText, "except")
    /\ executed # <<>>

\* The error frames among the frames of a stream.
ErrorFramesOf(frames) == SelectSeq(frames, LAMBDA f : f.kind = "error")

\* C24: no failure raised during validation, dispatch or aggregation leaves
\* handle(): a request that has been answered has a JSONResponse or a
\* StreamingResponse; a failed request that is not streamed has one JSON error
\* response whose code, type and status are the classifier's; a failed
\* streamed request has its StreamingResponse and, unless it was cancelled,
\* exactly one error frame with the classifier's code; a failed request never
\* also gets a completion. Only the cancellation of the call itself, which is
\* no failure, passes through handle().
C24_NoFailureEscapes ==
    \A r \in Reqs :
        /\ pc[r] = "responded" => response[r].kind \in {"json", "json_error"}
        /\ pc[r] \in {"gen_created", "awaiting", "yielding", "finishing", "closed"}
               => response[r].kind = "stream"
        /\ response[r].kind = "raised"
               => /\ cancelled[r]
                  /\ ~payload[r].stream
                  /\ failure[r] = NoFailure
                  /\ response[r].message = "CancelledError"
        /\ failure[r] # NoFailure =>
               LET err == classify_error(failure[r].exc)
               IN  IF failure[r].site \in ValidationSites \/ ~payload[r].stream
                   THEN /\ pc[r] = "responded"
                        /\ response[r] = ErrorResponse(failure[r].exc,
                                                       ErrorTypeOf(err.category),
                                                       err.code,
                                                       StatusOf(err.category))
                        /\ collectCalls[r] = 0
                        /\ written[r] = <<>>
                   ELSE /\ response[r].kind = "stream"
                        /\ Len(ErrorFramesOf(written[r] \o pending[r])) <= 1
                        /\ \A i \in 1..Len(written[r]) :
                               written[r][i].kind = "error"
                                   => written[r][i].code = err.code
                        /\ ~cancelled[r] =>
                               Len(ErrorFramesOf(written[r] \o pending[r])) = 1

\* a request that is not streamed timed out after two events were drained and
\* was answered with the classifier's 408
C24_Witness ==
    /\ ~payload[1].stream
    /\ failure[1] = [exc |-> "Timeout", site |-> "astream"]
    /\ Len(produced[1]) = 2
    /\ pc[1] = "responded"
    /\ response[1].kind = "json_error"
    /\ response[1].status = 408

====
